---- MODULE Spec2Model ----
(***************************************************************************)
(* State-machine model of switchy's call generator (apps/call_gen.py):     *)
(* the Originator run state, its burst-loop worker thread, the control     *)
(* calls start/stop/hupall/shutdown made by a user thread, and the         *)
(* session lifecycle events handled by one listener thread per slave.      *)
(***************************************************************************)
EXTENDS Integers, Sequences, FiniteSets, TLC

(* ------------------------------ bounds --------------------------------- *)
MaxThreads == 2      \* worker thread slots
NumConns   == 2      \* slaves (client, listener pairs) in the pool
MaxIssued  == 2      \* originate requests the slaves accept over a lifetime
MaxLimit   == 2      \* largest `limit` setting tried
MaxRateCfg == 2      \* largest `rate` setting tried
MaxOffer   == 2      \* largest finite `max_offered` setting tried
MaxWeight  == 3      \* largest weight of an app id in the weight map
MaxEdits   == 2      \* weight assignments made while the iterator is in use
MaxCeiling == 1      \* largest max_limit of a slave's listener
MaxDrawn   == 3      \* largest `num` of a burst drawn from the limiter
MaxReqs    == 3      \* originate requests followed through the limiter
MaxDuration == 2     \* largest `duration` assigned by hand
MaxElapsed == 3      \* longest time between a session's creation and its job's end
period     == 3      \* Originator.period (one second), in ticks of the clock
MaxTime    == 12     \* the clock is followed up to this tick

(* ------------------------- program constants --------------------------- *)
INITIAL     == 0
ORIGINATING == 1
STOPPED     == 2
max_rate        == 250
duration_offset == 5

Threads == 1..MaxThreads
Conns   == 1..NumConns
NoLog   == <<>>
\* a listener thread: between event callbacks, holding the value it read
\* at line 381, or about to call _check_max
Idle    == [pc |-> "idle", val |-> 0]
Read(v) == [pc |-> "read", val |-> v]
Chk     == [pc |-> "check", val |-> 0]
\* the app ids and the absence of one
Ids     == {"A", "B"}
NoId    == "none"
\* numbers that true division makes (from __future__ import division): n / d;
\* NoVal stands for None
Ratio(n, d)  == [n |-> n, d |-> d]
NoVal        == [n |-> 0, d |-> 0]
RatEq(a, b)  == a.d # 0 /\ b.d # 0 /\ a.n * b.d = b.n * a.d
HookKinds    == {"rate", "limit", "duration"}
\* no time read and no event scheduled
None         == 0 - 1
NoTm         == [pc |-> "off", now |-> 0, prerun |-> None, due |-> None,
                 start |-> None, gap |-> None, took |-> None]
\* no limiter in use
NoLm         == [pc |-> "off", idx |-> 0, num |-> 0, drawn |-> <<>>,
                 cnt |-> <<>>, jobs |-> <<>>, max_limit |-> <<>>, reqs |-> 0]
\* no BACKGROUND_JOB notification handled yet
NoHup        == [seen |-> FALSE, noauto |-> FALSE, elapsed |-> 0, at |-> NoVal]

VARIABLES
  state,       \* Originator._state.value
  startFlag,   \* Originator._start (event flag)
  exitFlag,    \* Originator._exit (event flag)
  thread,      \* Originator._thread: 0 is None, else a worker thread id
  wpc,         \* position of every worker thread in _serve_forever/_burst
  wloc,        \* locals of _burst of every worker thread
  queue,       \* number of events pending in Originator.sched
  slaveIdx,    \* position of the cycle inside Originator.iterslaves
  origCmd,     \* pool's originate command is set
  apps,        \* app_weights.weights is non-empty
  iterDone,    \* the generator Originator.iterappids has finished
  limit,       \* Originator._limit
  rate,        \* Originator._rate
  maxOffered,  \* Originator.max_offered
  total,       \* Originator._total_originated_sessions
  sess,        \* per slave: sessions and jobs by lifecycle stage
  hpc,         \* per slave: position of its listener thread in _handle_originate
  cpc,         \* position of the user thread inside a control call
  log,         \* state-change observation emitted by the last step
  issued,      \* history: originate requests accepted so far
  stopRet,     \* history: stop() has returned and start() was not called since
  armed,       \* history: start() was called and nothing has stopped the run since
  hist,        \* the histories stopRet and armed are recorded in this run
  weights,     \* WeightedIterator.weights: app id -> weight
  counts,      \* WeightedIterator.counts: the countdown copy
  order,       \* iteration order of the dicts' keys
  gen,         \* the generator made by __iter__: where it stands
  scan,        \* cycle(), line 92: the keys the running for loop iterates
  pos,         \* cycle(), line 92: index in scan of the next key
  pend,        \* __iter__, line 102: the item whose decrement is pending
  cyc,         \* history: items yielded since the countdown was last (re)filled
  cp,          \* __iter__, line 106: the copy of weights not yet stored
  wr,          \* __setitem__: where the thread editing a weight stands
  edits,       \* history: weights assigned so far
  began,       \* history: the value of edits when the refill of line 106 began
               \* the current cycle; None when line 83 began it or an
               \* assignment was under way
  duration,    \* Originator._duration, a ratio
  ibp,         \* Originator.ibp: the delay between two originates, a ratio
  autoDur,     \* Originator.auto_duration
  hooks,       \* the setting hooks the loaded app implements
  hkRate,      \* the value __setrate__ was last called with
  hkLimit,     \* the value __setlimit__ was last called with
  hkDur,       \* the value __setduration__ was last called with
  lastSet,     \* history: the setting assigned last
  hup,         \* the BACKGROUND_JOB notification handled last and the hangup
               \* _handle_bj scheduled for its session
  tm,          \* the clock, the scheduler's event and the worker's `prerun`;
               \* history: start of the last burst, its distance from the
               \* one before (gap) and the time the last finished burst took
  lm           \* the limiter cycle over slaves with a ceiling: its position,
               \* the slaves drawn for the burst, each slave's calls, jobs
               \* and max_limit

\* the variables of WeightedIterator, a component modelled on its own
itvars  == <<weights, counts, order, gen, scan, pos, pend, cyc, cp, wr, edits,
             began>>
\* the variables of the load settings beside limit and rate
setvars == <<duration, ibp, autoDur, hooks, hkRate, hkLimit, hkDur, lastSet,
             hup>>
\* further components modelled on their own: the timing of the bursts, the
\* limiter
sidevars == <<tm, lm>>
\* what the threads of a run leave alone
cfgvars == <<limit, rate, maxOffered, hist, itvars, setvars, sidevars>>
wvars   == <<wpc, wloc, queue, slaveIdx, iterDone>>
evars   == <<total, sess, hpc>>
cvars   == <<cpc, thread, startFlag, exitFlag, origCmd, apps, stopRet>>
vars    == <<state, startFlag, exitFlag, thread, wpc, wloc, queue, slaveIdx,
             origCmd, apps, iterDone, limit, rate, maxOffered, total, sess,
             hpc, cpc, log, issued, stopRet, armed, hist, itvars, setvars,
             sidevars>>

(* ------------------------------ helpers -------------------------------- *)
Min(a, b) == IF a <= b THEN a ELSE b
Max(a, b) == IF a >= b THEN a ELSE b

RECURSIVE SumOver(_, _)
SumOver(f, S) == IF S = {} THEN 0
                 ELSE LET c == CHOOSE x \in S : TRUE
                      IN  f[c] + SumOver(f, S \ {c})

NoLocals == [act0 |-> 0, originated |-> 0]
NoSess   == [infl |-> 0, crea |-> 0, noti |-> 0, answ |-> 0]

\* pool.count_jobs(): background jobs not yet reported complete
CountJobs(ss) == SumOver([c \in Conns |-> ss[c].infl + ss[c].crea + ss[c].noti], Conns)
\* pool.count_sessions() / pool.fast_count(): sessions the listeners track
CountSessions(ss) == SumOver([c \in Conns |-> ss[c].crea + ss[c].noti + ss[c].answ], Conns)
count_calls == CountSessions(sess)

(* --------------------------- State machine ----------------------------- *)
check_state(s, ident) == s = ident

AlwaysLog(s, ident) == <<s, ident>>
\* the observation _change_state(ident) logs when the state is s
ChangeLog(s, ident) == IF ~check_state(s, ident) THEN <<s, ident>> ELSE NoLog

StayState(s, ident) == s
\* the state _change_state(ident) leaves when the state is s
ChangeState(s, ident) == IF ~check_state(s, ident) THEN ident ELSE s

StopOnNoSession(s, ss) ==
  IF CountSessions(ss) = 0 THEN ChangeState(s, STOPPED) ELSE s
\* _stop_on_none: the state it leaves, given the pool's counts
StopOnNone(s, ss) ==
  IF CountJobs(ss) = 0 /\ CountSessions(ss) = 0 THEN ChangeState(s, STOPPED) ELSE s
StopOnNoneLog(s, ss) ==
  IF CountJobs(ss) = 0 /\ CountSessions(ss) = 0 THEN ChangeLog(s, STOPPED) ELSE NoLog

\* CHANNEL_ORIGINATE callbacks completed so far: every accepted request
\* whose session is past _handle_originate
Handled == issued - SumOver([c \in Conns |-> sess[c].infl + sess[c].crea], Conns)

\* shutdown() has returned
ShutRet == exitFlag /\ cpc # "sd_chg"

\* _check_max: does the quota stop the run
QuotaReached(tot, maxo) == tot >= maxo

(* ------------------------------- Init ---------------------------------- *)
\* the engine after construction; h: record the histories of the control calls
Setup(h) ==
  /\ state = INITIAL
  /\ startFlag = FALSE
  /\ exitFlag = FALSE
  /\ thread = 0
  /\ wpc = [t \in Threads |-> "none"]
  /\ wloc = [t \in Threads |-> NoLocals]
  /\ queue = 0
  /\ slaveIdx = 0
  /\ origCmd = FALSE
  /\ apps = FALSE
  /\ iterDone = FALSE
  /\ limit \in 1..MaxLimit
  /\ rate \in 1..MaxRateCfg
  /\ maxOffered \in 1..MaxOffer
  /\ total = 0
  /\ sess = [c \in Conns |-> NoSess]
  /\ hpc = [c \in Conns |-> Idle]
  /\ cpc = "idle"
  /\ log = NoLog
  /\ issued = 0
  /\ stopRet = FALSE
  /\ armed = FALSE
  /\ hist = h

\* the components modelled on their own, at rest during a run of the engine
AtRest ==
  /\ weights = <<>> /\ counts = <<>> /\ order = <<>>
  /\ gen = "new" /\ scan = <<>> /\ pos = 0 /\ pend = NoId /\ cyc = <<>>
  /\ cp = <<>> /\ wr = "idle" /\ edits = 0 /\ began = 0
  /\ duration = NoVal /\ ibp = NoVal /\ autoDur = TRUE /\ hooks = {}
  /\ hkRate = NoVal /\ hkLimit = NoVal /\ hkDur = NoVal /\ lastSet = "none"
  /\ hup = NoHup /\ tm = NoTm /\ lm = NoLm

Init == Setup(TRUE) /\ AtRest


(* ------------------- worker thread: _serve_forever --------------------- *)
Alive(p) == p \notin {"none", "dead"}
InBurst(p) == p \in {"burst", "b_state", "b_count", "b_orig"}

Goto(t, p) == wpc' = [wpc EXCEPT ![t] = p]

\* line 439: while not self._exit.is_set()
W_Outer(t) ==
  /\ wpc[t] = "outer"
  /\ Goto(t, IF exitFlag THEN "dead" ELSE "wait")
  /\ log' = NoLog
  /\ UNCHANGED <<state, wloc, queue, slaveIdx, iterDone, cfgvars, evars, cvars,
                 issued, armed>>

\* line 442: self._start.wait() returns at once when the flag is set and
\* otherwise blocks until the next set() notifies the waiters
W_Wait(t) ==
  /\ wpc[t] = "wait"
  /\ Goto(t, IF startFlag THEN "woken" ELSE "blocked")
  /\ log' = NoLog
  /\ UNCHANGED <<state, wloc, queue, slaveIdx, iterDone, cfgvars, evars, cvars,
                 issued, armed>>

\* line 444: check again for the exit event just after the start trigger
W_Woken(t) ==
  /\ wpc[t] = "woken"
  /\ Goto(t, IF exitFlag THEN "outer" ELSE "cfg")
  /\ log' = NoLog
  /\ UNCHANGED <<state, wloc, queue, slaveIdx, iterDone, cfgvars, evars, cvars,
                 issued, armed>>

\* lines 446-448 and 478-480: without an originate command the
\* ConfigurationError is caught by the outer handler and the thread ends
W_Cfg(t) ==
  /\ wpc[t] = "cfg"
  /\ Goto(t, IF origCmd THEN "empty" ELSE "dead")
  /\ log' = NoLog
  /\ UNCHANGED <<state, wloc, queue, slaveIdx, iterDone, cfgvars, evars, cvars,
                 issued, armed>>

\* line 450: self.sched.empty()
SchedEmpty(q) == q = 0

\* lines 450-451: if no pending tasks, insert a burst loop
W_SchedEmpty(t) ==
  /\ wpc[t] = "empty"
  /\ queue' = IF SchedEmpty(queue) THEN queue + 1 ELSE queue
  /\ Goto(t, "chg")
  /\ log' = NoLog
  /\ UNCHANGED <<state, wloc, slaveIdx, iterDone, cfgvars, evars, cvars,
                 issued, armed>>

\* line 454: self._change_state("ORIGINATING")
W_Chg(t) ==
  /\ wpc[t] = "chg"
  /\ state' = ChangeState(state, ORIGINATING)
  /\ log' = ChangeLog(state, ORIGINATING)
  /\ Goto(t, "inner")
  /\ UNCHANGED <<wloc, queue, slaveIdx, iterDone, cfgvars, evars, cvars,
                 issued, armed>>

\* line 456: while not self.check_state('STOPPED')
W_Inner(t) ==
  /\ wpc[t] = "inner"
  /\ Goto(t, IF check_state(state, STOPPED) THEN "outer" ELSE "run")
  /\ log' = NoLog
  /\ UNCHANGED <<state, wloc, queue, slaveIdx, iterDone, cfgvars, evars, cvars,
                 issued, armed>>

\* line 462: self.sched.run() pops and runs the pending events, waiting for
\* each one's time, and returns when the queue is empty (the wait is a delay
\* of the step; times are not kept)
W_Run(t) ==
  /\ wpc[t] = "run"
  /\ IF queue > 0
       THEN /\ queue' = queue - 1
            /\ Goto(t, "burst")
       ELSE /\ queue' = queue
            /\ Goto(t, "rearm")
  /\ log' = NoLog
  /\ UNCHANGED <<state, wloc, slaveIdx, iterDone, cfgvars, evars, cvars,
                 issued, armed>>

\* lines 464-468: schedule the next re-entry while still ORIGINATING
W_Rearm(t) ==
  /\ wpc[t] = "rearm"
  /\ queue' = IF check_state(state, ORIGINATING) THEN queue + 1 ELSE queue
  /\ Goto(t, "inner")
  /\ log' = NoLog
  /\ UNCHANGED <<state, wloc, slaveIdx, iterDone, cfgvars, evars, cvars,
                 issued, armed>>

(* ---------------------- worker thread: _burst -------------------------- *)
MaxNum(lim, cnt, rt) == Max(lim - cnt, rt)
\* line 404: num = min((self.limit - count_calls(), self.rate))
BurstNum(lim, cnt, rt) == Min(lim - cnt, rt)

\* `num` of the burst thread t is running (limit and rate are not changed
\* while a burst runs)
NumOf(t) == BurstNum(limit, wloc[t].act0, rate)

\* lines 401-413: read the count, compute num; zip() draws the num slaves
\* of this burst from the limiter cycle before the first iteration
B_Start(t) ==
  /\ wpc[t] = "burst"
  /\ wloc' = [wloc EXCEPT ![t] = [act0 |-> count_calls, originated |-> 0]]
  /\ slaveIdx' = (slaveIdx + Max(BurstNum(limit, count_calls, rate), 0)) % NumConns
  /\ Goto(t, "b_state")
  /\ armed' = IF check_state(state, ORIGINATING) THEN FALSE ELSE armed
  /\ log' = NoLog
  /\ UNCHANGED <<state, queue, iterDone, cfgvars, evars, cvars, issued>>

\* lines 413-415: next loop item, then break unless ORIGINATING; the
\* locals are dropped when _burst returns
B_State(t) ==
  /\ wpc[t] = "b_state"
  /\ IF wloc[t].originated >= NumOf(t) \/ ~check_state(state, ORIGINATING)
       THEN /\ Goto(t, "run")
            /\ wloc' = [wloc EXCEPT ![t] = NoLocals]
       ELSE /\ Goto(t, "b_count")
            /\ wloc' = wloc
  /\ log' = NoLog
  /\ UNCHANGED <<state, queue, slaveIdx, iterDone, cfgvars, evars, cvars,
                 issued, armed>>

\* lines 416-417: break when the limit is reached
B_Count(t) ==
  /\ wpc[t] = "b_count"
  /\ IF count_calls >= limit
       THEN /\ Goto(t, "run")
            /\ wloc' = [wloc EXCEPT ![t] = NoLocals]
       ELSE /\ Goto(t, "b_orig")
            /\ wloc' = wloc
  /\ log' = NoLog
  /\ UNCHANGED <<state, queue, slaveIdx, iterDone, cfgvars, evars, cvars,
                 issued, armed>>

\* the slave zip() paired with the current iteration of the burst of thread
\* t: the cycle stood Max(num, 0) places back when the burst began (no
\* listener is above its max_limit, so limiter skips no slave)
SlaveOf(t) ==
  ((slaveIdx + NumConns * (MaxLimit + MaxRateCfg) - Max(NumOf(t), 0) + wloc[t].originated) % NumConns) + 1

\* line 421, next(iterappids): the generator raises StopIteration when it has
\* ended or finds the weight map empty (lines 90-91)
AppIdRaises(done, loaded) == done \/ ~loaded

KeepState(s) == s
\* lines 469-472: an exception of the burst loop is logged and forces the
\* STOPPED state
OnBurstError(s) == ChangeState(s, STOPPED)

\* lines 420-426: next(iterappids) then originate on the slave. With no app
\* loaded the generator ends; this StopIteration, or an exception raised by
\* the originate call itself (fails), leaves through sched.run() to the
\* handler of lines 469-472 and the worker returns to the outer loop.
\* A slave accepts MaxIssued requests.
B_Orig(t) ==
  /\ wpc[t] = "b_orig"
  /\ \E fails \in BOOLEAN :
       IF AppIdRaises(iterDone, apps) \/ fails
         THEN /\ iterDone' = (iterDone \/ AppIdRaises(iterDone, apps))
              /\ state' = OnBurstError(state)
              /\ log' = ChangeLog(state, STOPPED)
              /\ armed' = FALSE
              /\ Goto(t, "outer")
              /\ wloc' = [wloc EXCEPT ![t] = NoLocals]
              /\ UNCHANGED <<sess, issued>>
         ELSE /\ wloc' = [wloc EXCEPT ![t].originated = @ + 1]
              /\ IF issued < MaxIssued
                   THEN /\ sess' = [sess EXCEPT ![SlaveOf(t)].infl = @ + 1]
                        /\ issued' = issued + 1
                   ELSE UNCHANGED <<sess, issued>>
              /\ Goto(t, "b_state")
              /\ log' = NoLog
              /\ UNCHANGED <<state, iterDone, armed>>
  /\ UNCHANGED <<queue, slaveIdx, cfgvars, total, hpc, cvars>>

Worker(t) ==
  \/ W_Outer(t) \/ W_Wait(t) \/ W_Woken(t) \/ W_Cfg(t) \/ W_SchedEmpty(t)
  \/ W_Chg(t) \/ W_Inner(t) \/ W_Run(t) \/ W_Rearm(t)
  \/ B_Start(t) \/ B_State(t) \/ B_Count(t) \/ B_Orig(t)


(* ------------------- user thread: control operations ------------------- *)
AlwaysNeed(th, pcs) == TRUE
\* line 519: self._thread is None or not self._thread.is_alive()
NeedThread(th, pcs) == th = 0 \/ ~Alive(pcs[th])

FreeSlots == {t \in Threads : ~Alive(wpc[t])}
NewSlot == CHOOSE t \in FreeSlots : TRUE

\* pool.evals("client.set_orig_cmd(...)"), as the test fixture does
SetOrigCmd ==
  /\ cpc = "idle" /\ ~origCmd
  /\ origCmd' = TRUE
  /\ log' = NoLog
  /\ UNCHANGED <<state, wvars, cfgvars, evars, cpc, thread, startFlag, exitFlag,
                 apps, stopRet, issued, armed>>

\* load_app, line 261: self.app_weights[app_id] = weight
LoadApp ==
  /\ cpc = "idle" /\ ~apps
  /\ apps' = TRUE
  /\ log' = NoLog
  /\ UNCHANGED <<state, wvars, cfgvars, evars, cpc, thread, startFlag, exitFlag,
                 origCmd, stopRet, issued, armed>>

\* start(), lines 519-525: create and start the worker thread when needed
Start ==
  /\ cpc = "idle"
  /\ IF NeedThread(thread, wpc)
       THEN /\ FreeSlots # {}
            /\ thread' = NewSlot
            /\ wpc' = [wpc EXCEPT ![NewSlot] = "outer"]
            /\ wloc' = [wloc EXCEPT ![NewSlot] = NoLocals]
            /\ cpc' = "start_sleep"
       ELSE /\ cpc' = "start_set"
            /\ UNCHANGED <<thread, wpc, wloc>>
  /\ stopRet' = FALSE
  /\ armed' = (hist /\ origCmd /\ ~exitFlag)
  /\ log' = NoLog
  /\ UNCHANGED <<state, queue, slaveIdx, iterDone, cfgvars, evars, startFlag,
                 exitFlag, origCmd, apps, issued>>

\* start(), line 525: time.sleep(0.1) after the new thread was started
StartSleep ==
  /\ cpc = "start_sleep"
  /\ cpc' = "start_set"
  /\ log' = NoLog
  /\ UNCHANGED <<state, wvars, cfgvars, evars, thread, startFlag, exitFlag,
                 origCmd, apps, stopRet, issued, armed>>

\* start(), line 527: self._start.set() raises the flag and wakes the
\* threads blocked in wait(); they return whatever happens to the flag next
StartSet ==
  /\ cpc = "start_set"
  /\ startFlag' = TRUE
  /\ wpc' = [t \in Threads |-> IF wpc[t] = "blocked" THEN "woken" ELSE wpc[t]]
  /\ cpc' = "start_clear"
  /\ log' = NoLog
  /\ UNCHANGED <<state, wloc, queue, slaveIdx, iterDone, cfgvars, evars, thread,
                 exitFlag, origCmd, apps, stopRet, issued, armed>>

\* start(), line 528: self._start.clear()
StartClear ==
  /\ cpc = "start_clear"
  /\ startFlag' = FALSE
  /\ cpc' = "idle"
  /\ log' = NoLog
  /\ UNCHANGED <<state, wvars, cfgvars, evars, thread, exitFlag, origCmd, apps,
                 stopRet, issued, armed>>

StopWithHangup ==
  /\ cpc = "idle"
  /\ state' = ChangeState(state, STOPPED)
  /\ log' = ChangeLog(state, STOPPED)
  /\ stopRet' = hist
  /\ armed' = FALSE
  /\ cpc' = "hup_send"
  /\ UNCHANGED <<wvars, cfgvars, evars, thread, startFlag, exitFlag, origCmd,
                 apps, issued>>
\* stop(), lines 540-545
Stop ==
  /\ cpc = "idle"
  /\ IF ~check_state(state, STOPPED)
       THEN /\ state' = ChangeState(state, STOPPED)
            /\ log' = ChangeLog(state, STOPPED)
       ELSE /\ state' = state
            /\ log' = NoLog
  /\ stopRet' = hist
  /\ armed' = FALSE
  /\ UNCHANGED <<wvars, cfgvars, evars, cpc, thread, startFlag, exitFlag, origCmd,
                 apps, issued>>

\* hupall(), line 552: set the stopped state
Hupall ==
  /\ cpc = "idle"
  /\ state' = ChangeState(state, STOPPED)
  /\ log' = ChangeLog(state, STOPPED)
  /\ cpc' = "hup_send"
  /\ armed' = FALSE
  /\ UNCHANGED <<wvars, cfgvars, evars, thread, startFlag, exitFlag, origCmd,
                 apps, stopRet, issued>>

\* hupall(), line 553: self.pool.evals('client.hupall()')
HupallSend ==
  /\ cpc = "hup_send"
  /\ cpc' = "idle"
  /\ log' = NoLog
  /\ UNCHANGED <<state, wvars, cfgvars, evars, thread, startFlag, exitFlag,
                 origCmd, apps, stopRet, issued, armed>>

\* shutdown(), lines 565-566: hupall() when sessions remain
Shutdown ==
  /\ cpc = "idle"
  /\ IF CountSessions(sess) # 0
       THEN /\ state' = ChangeState(state, STOPPED)
            /\ log' = ChangeLog(state, STOPPED)
            /\ cpc' = "sd_hup"
       ELSE /\ state' = state
            /\ log' = NoLog
            /\ cpc' = "sd_exit"
  /\ armed' = FALSE
  /\ UNCHANGED <<wvars, cfgvars, evars, thread, startFlag, exitFlag, origCmd,
                 apps, stopRet, issued>>

\* shutdown(), line 566: the hangup request of its hupall()
ShutdownHup ==
  /\ cpc = "sd_hup"
  /\ cpc' = "sd_exit"
  /\ log' = NoLog
  /\ UNCHANGED <<state, wvars, cfgvars, evars, thread, startFlag, exitFlag,
                 origCmd, apps, stopRet, issued, armed>>

\* shutdown(), line 567: self._exit.set()
ShutdownExit ==
  /\ cpc = "sd_exit"
  /\ exitFlag' = TRUE
  /\ cpc' = "sd_chg"
  /\ log' = NoLog
  /\ UNCHANGED <<state, wvars, cfgvars, evars, thread, startFlag, origCmd, apps,
                 stopRet, issued, armed>>

\* shutdown(), line 568: self._change_state("STOPPED"), then return
ShutdownChg ==
  /\ cpc = "sd_chg"
  /\ state' = ChangeState(state, STOPPED)
  /\ log' = ChangeLog(state, STOPPED)
  /\ cpc' = "idle"
  /\ UNCHANGED <<wvars, cfgvars, evars, thread, startFlag, exitFlag, origCmd,
                 apps, stopRet, issued, armed>>

(* ---------------- listener threads: session lifecycle ------------------ *)
\* the slave creates the session of an accepted originate request and the
\* listener starts to track it (count_calls/count_sessions include it)
E_Create(c) ==
  /\ hpc[c] = Idle /\ sess[c].infl > 0
  /\ sess' = [sess EXCEPT ![c].infl = @ - 1, ![c].crea = @ + 1]
  /\ log' = NoLog
  /\ UNCHANGED <<state, wvars, cfgvars, cvars, total, hpc, issued, armed>>

\* _handle_originate, line 381: the read of self._total_originated_sessions
H_OrigRead(c) ==
  /\ hpc[c] = Idle /\ sess[c].crea > 0
  /\ hpc' = [hpc EXCEPT ![c] = Read(total)]
  /\ log' = NoLog
  /\ UNCHANGED <<state, wvars, cfgvars, cvars, total, sess, issued, armed>>

\* _handle_originate, line 381: the write of the incremented value
H_OrigWrite(c) ==
  /\ hpc[c].pc = "read"
  /\ total' = hpc[c].val + 1
  /\ hpc' = [hpc EXCEPT ![c] = Chk]
  /\ log' = NoLog
  /\ UNCHANGED <<state, wvars, cfgvars, cvars, sess, issued, armed>>

\* _handle_originate, line 382, and _check_max, lines 386-388
H_CheckMax(c) ==
  /\ hpc[c] = Chk
  /\ IF QuotaReached(total, maxOffered)
       THEN /\ state' = ChangeState(state, STOPPED)
            /\ log' = ChangeLog(state, STOPPED)
            /\ armed' = FALSE
       ELSE /\ state' = state
            /\ log' = NoLog
            /\ armed' = armed
  /\ hpc' = [hpc EXCEPT ![c] = Idle]
  /\ sess' = [sess EXCEPT ![c].crea = @ - 1, ![c].noti = @ + 1]
  /\ UNCHANGED <<wvars, cfgvars, cvars, total, issued>>

\* _handle_bj, lines 353-366: the job of the session is complete (the hangup
\* it may schedule is one of the ways H_Hangup comes about)
H_Bj(c) ==
  /\ hpc[c] = Idle /\ sess[c].noti > 0
  /\ sess' = [sess EXCEPT ![c].noti = @ - 1, ![c].answ = @ + 1]
  /\ state' = StopOnNone(state, sess')
  /\ log' = StopOnNoneLog(state, sess')
  /\ armed' = IF StopOnNoneLog(state, sess') # NoLog THEN FALSE ELSE armed
  /\ UNCHANGED <<wvars, cfgvars, cvars, total, hpc, issued>>

\* _handle_hangup, lines 368-370: the session has ended
H_Hangup(c) ==
  /\ hpc[c] = Idle /\ sess[c].answ > 0
  /\ sess' = [sess EXCEPT ![c].answ = @ - 1]
  /\ state' = StopOnNone(state, sess')
  /\ log' = StopOnNoneLog(state, sess')
  /\ armed' = IF StopOnNoneLog(state, sess') # NoLog THEN FALSE ELSE armed
  /\ UNCHANGED <<wvars, cfgvars, cvars, total, hpc, issued>>

Listener(c) ==
  \/ E_Create(c) \/ H_OrigRead(c) \/ H_OrigWrite(c) \/ H_CheckMax(c)
  \/ H_Bj(c) \/ H_Hangup(c)

Caller ==
  \/ SetOrigCmd \/ LoadApp \/ Start \/ StartSleep \/ StartSet \/ StartClear \/ Stop
  \/ Hupall \/ HupallSend \/ Shutdown \/ ShutdownHup \/ ShutdownExit \/ ShutdownChg

Next ==
  \/ \E t \in Threads : Worker(t)
  \/ \E c \in Conns : Listener(c)
  \/ Caller

Spec == Init /\ [][Next]_vars

\* the heaviest load settings of the range: every setting at its largest;
\* the program variables alone, no history of the control calls
InitMax ==
  /\ Setup(FALSE) /\ AtRest
  /\ limit = MaxLimit /\ rate = MaxRateCfg /\ maxOffered = MaxOffer

SpecMax == InitMax /\ [][Next]_vars

\* a run started once: start() is called on a fresh engine only
StartOnce == thread = 0 /\ Start

CallerOnce ==
  \/ SetOrigCmd \/ LoadApp \/ StartOnce \/ StartSleep \/ StartSet \/ StartClear \/ Stop
  \/ Hupall \/ HupallSend \/ Shutdown \/ ShutdownHup \/ ShutdownExit \/ ShutdownChg

NextOnce ==
  \/ \E t \in Threads : Worker(t)
  \/ \E c \in Conns : Listener(c)
  \/ CallerOnce

SpecOnce == Init /\ [][NextOnce]_vars

\* the sleep at line 525 lasts long enough: the thread start() has created
\* is blocked in _start.wait(), or has ended, before set() is called
StartSleepSettled == StartSleep /\ wpc[thread] \notin {"outer", "wait"}

CallerSettled ==
  \/ SetOrigCmd \/ LoadApp \/ Start \/ StartSleepSettled \/ StartSet \/ StartClear
  \/ Stop \/ Hupall \/ HupallSend \/ Shutdown \/ ShutdownHup \/ ShutdownExit
  \/ ShutdownChg

NextSettled ==
  \/ \E t \in Threads : Worker(t)
  \/ \E c \in Conns : Listener(c)
  \/ CallerSettled

\* the threads run: a worker or listener thread that can take a step
\* eventually takes one, and a control call that has begun runs to its end
CallerRuns ==
  \/ StartSleepSettled \/ StartSet \/ StartClear \/ HupallSend \/ ShutdownHup
  \/ ShutdownExit \/ ShutdownChg

Fairness ==
  /\ \A t \in Threads : WF_vars(Worker(t))
  /\ \A c \in Conns : WF_vars(Listener(c))
  /\ WF_vars(CallerRuns)

\* one load setting: limit = rate = max_offered = 1
InitOne == Init /\ limit = 1 /\ rate = 1 /\ maxOffered = 1

SpecFair == InitOne /\ [][NextSettled]_vars /\ Fairness

\* a run started once and stopped by stop() alone, at any time and any
\* number of times
CallerStop ==
  \/ SetOrigCmd \/ LoadApp \/ StartOnce \/ StartSleepSettled \/ StartSet \/ StartClear
  \/ Stop

NextStop ==
  \/ \E t \in Threads : Worker(t)
  \/ \E c \in Conns : Listener(c)
  \/ CallerStop

SpecStop == InitOne /\ [][NextStop]_vars

\* one run left to itself: the engine is set up, start() is called once and
\* neither stop(), hupall() nor shutdown() is called
CallerRun ==
  \/ SetOrigCmd \/ LoadApp \/ StartOnce \/ StartSleepSettled \/ StartSet \/ StartClear

NextRun ==
  \/ \E t \in Threads : Worker(t)
  \/ \E c \in Conns : Listener(c)
  \/ CallerRun

\* the worker and the listeners run, start() runs to its end, and every
\* session is reported and ends (H_Bj, H_Hangup: the hangup _handle_bj
\* schedules with a positive duration)
FairRun ==
  /\ \A t \in Threads : WF_vars(Worker(t))
  /\ \A c \in Conns : WF_vars(Listener(c))
  /\ WF_vars(StartSleepSettled \/ StartSet \/ StartClear)

SpecRun == InitMax /\ [][NextRun]_vars /\ FairRun

\* runs started any number of times and never stopped from outside; the
\* slaves accept every originate call made to them (the call of line 420
\* raises nothing of its own)
WorkerOk(t) ==
  /\ Worker(t)
  /\ (wpc[t] = "b_orig" /\ ~AppIdRaises(iterDone, apps)) => wpc'[t] = "b_state"

CallerAgain ==
  \/ SetOrigCmd \/ LoadApp \/ Start \/ StartSleepSettled \/ StartSet \/ StartClear

NextAgain ==
  \/ \E t \in Threads : WorkerOk(t)
  \/ \E c \in Conns : Listener(c)
  \/ CallerAgain

FairAgain ==
  /\ \A t \in Threads : WF_vars(WorkerOk(t))
  /\ \A c \in Conns : WF_vars(Listener(c))
  /\ WF_vars(StartSleepSettled \/ StartSet \/ StartClear)

SpecAgain == InitOne /\ [][NextAgain]_vars /\ FairAgain

(* ------------------ WeightedIterator (lines 68-106) -------------------- *)
\* the weight maps: some of the ids, each with a positive weight
WeightMaps == UNION {[K -> 1..MaxWeight] : K \in SUBSET Ids}
\* the orders a dict may iterate its keys in
Orders == {o \in [1..Cardinality(Ids) -> Ids] : \A i, j \in DOMAIN o : i # j => o[i] # o[j]}

\* the keys of dict d in iteration order
InDomain(d, k) == k \in DOMAIN d
Keys(d) == SelectSeq(order, LAMBDA k : InDomain(d, k))
\* Counter.__getitem__: a missing key counts 0
Get(d, k) == IF k \in DOMAIN d THEN d[k] ELSE 0
\* line 102: self.counts[item] -= 1
Decrement(cnt, k) ==
  [x \in DOMAIN cnt \cup {k} |-> IF x = k THEN Get(cnt, k) - 1 ELSE cnt[x]]

SomeExpired(cnt) == \E k \in DOMAIN cnt : cnt[k] = 0
\* line 105: not any(self.counts.values())
AllExpired(cnt) == \A k \in DOMAIN cnt : cnt[k] = 0

\* occurrences of k in the sequence q
Occurrences(q, k) == Cardinality({i \in DOMAIN q : q[i] = k})

\* lines 72-74 and 195: a WeightedIterator over the weight map w whose dicts
\* iterate in order o, and the generator iter() makes of it, not yet started
NewIterator(w, o) ==
  /\ weights = w /\ counts = w /\ order = o
  /\ gen = "new" /\ scan = <<>> /\ pos = 0 /\ pend = NoId /\ cyc = <<>>
  /\ cp = <<>> /\ wr = "idle" /\ edits = 0 /\ began = 0

\* next(): the consumer starts the generator, or resumes it after the yield
\* of line 101: the pending decrement (line 102), then the refill of lines
\* 105-106
It_Call ==
  /\ gen \in {"new", "yield"}
  /\ IF gen = "new"
       THEN /\ gen' = "head"
            /\ UNCHANGED <<counts, cp>>
       ELSE /\ counts' = Decrement(counts, pend)
            /\ gen' = IF AllExpired(Decrement(counts, pend)) THEN "store" ELSE "scan"
            /\ cp' = IF AllExpired(Decrement(counts, pend)) THEN weights ELSE cp
  /\ pend' = NoId
  /\ UNCHANGED <<weights, order, scan, pos, cyc, wr, edits, began>>

\* line 106: self.counts = <the copy made of self.weights>; the copy and the
\* store are two steps of the thread
It_Store ==
  /\ gen = "store"
  /\ counts' = cp
  /\ cp' = <<>>
  /\ cyc' = <<>>
  /\ gen' = "scan"
  /\ began' = IF wr = "idle" THEN edits ELSE None
  /\ UNCHANGED <<weights, order, scan, pos, pend, wr, edits>>

NeverEmpty(w) == FALSE
\* line 90: not self.weights
NoItems(w) == DOMAIN w = {}

\* cycle(), lines 89-92: top of the while loop; an empty weight map raises
\* StopIteration, which ends both generators; else the for loop starts
\* over the keys of counts
It_Head ==
  /\ gen = "head"
  /\ IF NoItems(weights)
       THEN /\ gen' = "done"
            /\ UNCHANGED <<scan, pos>>
       ELSE /\ gen' = "scan"
            /\ scan' = Keys(counts)
            /\ pos' = 1
  /\ UNCHANGED <<weights, counts, order, pend, cyc, cp, wr, edits, began>>

\* lines 92-93 and 99-106: the next key of the for loop; it is yielded when
\* its countdown is positive, else the refill check runs and the loop goes on
It_Scan ==
  /\ gen = "scan"
  /\ IF pos > Len(scan)
       THEN /\ gen' = "head"
            /\ UNCHANGED <<pos, pend, cyc, cp>>
       ELSE /\ pos' = pos + 1
            /\ IF Get(counts, scan[pos]) > 0
                 THEN /\ gen' = "yield"
                      /\ pend' = scan[pos]
                      /\ cyc' = Append(cyc, scan[pos])
                      /\ cp' = cp
                 ELSE /\ gen' = IF AllExpired(counts) THEN "store" ELSE "scan"
                      /\ cp' = IF AllExpired(counts) THEN weights ELSE cp
                      /\ pend' = pend
                      /\ cyc' = cyc
  /\ UNCHANGED <<weights, counts, order, scan, wr, edits, began>>

\* everything but the iterator
engvars == <<state, startFlag, exitFlag, thread, wpc, wloc, queue, slaveIdx,
             origCmd, apps, iterDone, limit, rate, maxOffered, total, sess,
             hpc, cpc, log, issued, stopRet, armed, hist, setvars, sidevars>>

NextIter ==
  \/ It_Call /\ UNCHANGED engvars
  \/ It_Head /\ UNCHANGED engvars
  \/ It_Scan /\ UNCHANGED engvars
  \/ It_Store /\ UNCHANGED engvars

\* an iterator over any weight map, consumed by one thread
InitIter ==
  /\ Setup(FALSE) /\ limit = 1 /\ rate = 1 /\ maxOffered = 1
  /\ duration = NoVal /\ ibp = NoVal /\ autoDur = TRUE /\ hooks = {}
  /\ hkRate = NoVal /\ hkLimit = NoVal /\ hkDur = NoVal /\ lastSet = "none"
  /\ hup = NoHup /\ tm = NoTm /\ lm = NoLm
  /\ \E w \in WeightMaps, o \in Orders : NewIterator(w, o)

SpecIter == InitIter /\ [][NextIter]_vars

\* the weights load_app assigns: 0 takes an app out of the rotation
WeightChoices == 0..MaxWeight

\* dict d with key k set to v
Assign(d, k, v) == [x \in DOMAIN d \cup {k} |-> IF x = k THEN v ELSE d[x]]

\* __setitem__, line 82, called by another thread (load_app, line 261):
\* self.weights[key] = value
Set_Weight(k, v) ==
  /\ wr = "idle" /\ edits < MaxEdits
  /\ weights' = Assign(weights, k, v)
  /\ wr' = "copy"
  /\ edits' = edits + 1
  /\ UNCHANGED <<counts, order, gen, scan, pos, pend, cyc, cp, began>>

\* __setitem__, line 83: self.counts = self.weights.copy()
Set_Copy ==
  /\ wr = "copy"
  /\ counts' = weights
  /\ cyc' = <<>>
  /\ wr' = "idle"
  /\ began' = None
  /\ UNCHANGED <<weights, order, gen, scan, pos, pend, cp, edits>>

\* the iterator consumed by one thread while another assigns weights
NextEdit ==
  \/ It_Call /\ UNCHANGED engvars
  \/ It_Head /\ UNCHANGED engvars
  \/ It_Scan /\ UNCHANGED engvars
  \/ It_Store /\ UNCHANGED engvars
  \/ \E k \in Ids, v \in WeightChoices : Set_Weight(k, v) /\ UNCHANGED engvars
  \/ Set_Copy /\ UNCHANGED engvars

SpecEdit == InitIter /\ [][NextEdit]_vars

\* the thread inside next() runs on until the generator yields or ends, and
\* an assignment that has begun is completed
FairEdit ==
  /\ WF_vars((It_Head \/ It_Scan \/ It_Store) /\ UNCHANGED engvars)
  /\ WF_vars(Set_Copy /\ UNCHANGED engvars)

SpecEditFair == InitIter /\ [][NextEdit]_vars /\ FairEdit


(* ------------- load settings: rate, limit, duration (273-332) ---------- *)
\* the values tried for the settings
RateChoices  == (1..MaxRateCfg) \cup {max_rate, max_rate + 1}
LimitChoices == (0..MaxLimit) \cup {max_rate + 1}
DurChoices   == 0..MaxDuration

NoClamp(value) == value
\* _set_rate, line 284: burst_rate = float(min(self.max_rate, value))
BurstRate(value) == Min(max_rate, value)
\* _set_rate, line 287: self.ibp = 1 / burst_rate * 0.90
Ibp(value) == Ratio(9, 10 * BurstRate(value))

\* lines 298 and 315: limit / rate + self.duration_offset
AutoDuration(lim, rt) == Ratio(lim + duration_offset * rt, rt)

Unheard(kind, value, old) == old
\* lines 291-295, 308-311, 325-328: the hook of a kind is called with the
\* value when the loaded app implements it
Heard(kind, value, old) == IF kind \in hooks THEN value ELSE old

\* what stays as it is when a setting is assigned
fixvars == <<state, startFlag, exitFlag, thread, wpc, wloc, queue, slaveIdx,
             origCmd, apps, iterDone, maxOffered, total, sess, hpc, cpc, log,
             issued, stopRet, armed, hist, itvars, autoDur, hooks, hup,
             sidevars>>

\* _set_duration, lines 323-330
SetDuration(value) ==
  /\ hkDur' = Heard("duration", value, hkDur)
  /\ duration' = value

\* _set_rate, lines 283-298; the auto duration goes through the duration
\* property, so through _set_duration
SetRate(value) ==
  /\ ibp' = Ibp(value)
  /\ rate' = value
  /\ hkRate' = Heard("rate", Ratio(value, NumConns), hkRate)
  /\ IF autoDur /\ limit # 0
       THEN SetDuration(AutoDuration(limit, value))
       ELSE UNCHANGED <<duration, hkDur>>
  /\ lastSet' = "rate"
  /\ UNCHANGED <<limit, hkLimit, fixvars>>

\* _set_limit, lines 306-315
SetLimit(value) ==
  /\ hkLimit' = Heard("limit", Ratio(value, 1), hkLimit)
  /\ limit' = value
  /\ IF autoDur
       THEN SetDuration(AutoDuration(value, rate))
       ELSE UNCHANGED <<duration, hkDur>>
  /\ lastSet' = "limit"
  /\ UNCHANGED <<rate, ibp, hkRate, fixvars>>

\* orig.duration = value
AssignDuration(value) ==
  /\ SetDuration(Ratio(value, 1))
  /\ lastSet' = "duration"
  /\ UNCHANGED <<rate, limit, ibp, hkRate, hkLimit, fixvars>>

\* the session of a notification: sess.time - sess.create_time
ElapsedChoices == 0..MaxElapsed

AnyHangup(noauto, dur) == ~noauto
\* _handle_bj, line 357: not sess.call.vars.get('noautohangup') and
\* self.duration
AutoHangup(noauto, dur) == ~noauto /\ dur.n # 0

\* line 361: self.duration - (sess.time - sess.create_time)
HangupDelay(dur, elapsed) == Ratio(dur.n - elapsed * dur.d, dur.d)

\* _handle_bj, lines 353-363, for a session with the variable noautohangup
\* set or not, elapsed seconds after its creation (the _stop_on_none that
\* follows is H_Bj)
HandleBj(noauto, elapsed) ==
  /\ hup' = [seen |-> TRUE, noauto |-> noauto, elapsed |-> elapsed,
             at |-> IF AutoHangup(noauto, duration)
                      THEN HangupDelay(duration, elapsed) ELSE NoVal]
  /\ UNCHANGED <<state, startFlag, exitFlag, thread, wpc, wloc, queue, slaveIdx,
                 origCmd, apps, iterDone, limit, rate, maxOffered, total, sess,
                 hpc, cpc, log, issued, stopRet, armed, hist, itvars, duration,
                 ibp, autoDur, hooks, hkRate, hkLimit, hkDur, lastSet,
                 sidevars>>

NextSet ==
  \/ \E v \in RateChoices : SetRate(v)
  \/ \E v \in LimitChoices : SetLimit(v)
  \/ \E v \in DurChoices : AssignDuration(v)

\* an engine after construction and load_app: its settings hold values given
\* to the constructor (a limit of 0 is replaced by the default at line 203),
\* the duration is the one given or the auto duration, and no hook of the
\* app has been called yet
InitSet ==
  /\ Setup(FALSE)
  /\ weights = <<>> /\ counts = <<>> /\ order = <<>>
  /\ gen = "new" /\ scan = <<>> /\ pos = 0 /\ pend = NoId /\ cyc = <<>>
  /\ cp = <<>> /\ wr = "idle" /\ edits = 0 /\ began = 0
  /\ autoDur \in BOOLEAN
  /\ hooks \in SUBSET HookKinds
  /\ ibp = Ibp(rate)
  /\ duration \in {Ratio(v, 1) : v \in DurChoices} \cup {AutoDuration(limit, rate)}
  /\ hkRate = NoVal /\ hkLimit = NoVal /\ hkDur = NoVal
  /\ lastSet = "none"
  /\ hup = NoHup /\ tm = NoTm /\ lm = NoLm

SpecSet == InitSet /\ [][NextSet]_vars

\* the notifications of sessions handled under any duration the settings give
NextBj == \E na \in BOOLEAN, el \in ElapsedChoices : HandleBj(na, el)

SpecBj == InitSet /\ [][NextBj]_vars

(* -------------- timing of the burst loop (lines 456-468) --------------- *)
\* a burst takes less than a period
BurstTimes == 0..(period - 1)

\* everything but the timing
untimed == <<state, startFlag, exitFlag, thread, wpc, wloc, queue, slaveIdx,
             origCmd, apps, iterDone, limit, rate, maxOffered, total, sess,
             hpc, cpc, log, issued, stopRet, armed, hist, itvars, setvars, lm>>

\* line 457: prerun = time.time() (the state is ORIGINATING throughout)
T_Prerun ==
  /\ tm.pc = "inner" /\ tm.now <= MaxTime
  /\ tm' = [tm EXCEPT !.pc = "run", !.prerun = tm.now]
  /\ UNCHANGED untimed

\* line 462: sched.run() sleeps until the event is due, then pops it and
\* calls _burst: a burst invocation starts
T_Run ==
  /\ tm.pc = "run" /\ tm.due # None
  /\ tm' = [tm EXCEPT !.pc = "burst",
                      !.now = Max(tm.now, tm.due),
                      !.due = None,
                      !.start = Max(tm.now, tm.due),
                      !.gap = IF tm.start = None THEN None
                                ELSE Max(tm.now, tm.due) - tm.start]
  /\ UNCHANGED untimed

\* _burst runs for d ticks and returns; sched.run() finds no event left
T_Burst(d) ==
  /\ tm.pc = "burst"
  /\ tm' = [tm EXCEPT !.pc = "rearm", !.now = tm.now + d, !.took = d]
  /\ UNCHANGED untimed

PlusPeriod(t, p) == t + p
\* lines 464-468: sched.enterabs(prerun + self.period, 1, self._burst, ())
T_Rearm ==
  /\ tm.pc = "rearm"
  /\ tm' = [tm EXCEPT !.pc = "inner", !.due = PlusPeriod(tm.prerun, period)]
  /\ UNCHANGED untimed

NextTime ==
  \/ T_Prerun \/ T_Run \/ T_Rearm
  \/ \E d \in BurstTimes : T_Burst(d)

\* the worker enters the task loop at tick 0 with the first burst entered
\* with delay 0 (line 451)
InitTime ==
  /\ Setup(FALSE) /\ limit = 1 /\ rate = 1 /\ maxOffered = 1
  /\ weights = <<>> /\ counts = <<>> /\ order = <<>>
  /\ gen = "new" /\ scan = <<>> /\ pos = 0 /\ pend = NoId /\ cyc = <<>>
  /\ cp = <<>> /\ wr = "idle" /\ edits = 0 /\ began = 0
  /\ duration = NoVal /\ ibp = NoVal /\ autoDur = TRUE /\ hooks = {}
  /\ hkRate = NoVal /\ hkLimit = NoVal /\ hkDur = NoVal /\ lastSet = "none"
  /\ hup = NoHup /\ lm = NoLm
  /\ tm = [pc |-> "inner", now |-> 0, prerun |-> None, due |-> 0,
           start |-> None, gap |-> None, took |-> None]

SpecTime == InitTime /\ [][NextTime]_vars

(* ------------- limiter and the slaves of a burst (57-65, 413) ---------- *)
\* everything but the limiter
unlimited == <<state, startFlag, exitFlag, thread, wpc, wloc, queue, slaveIdx,
               origCmd, apps, iterDone, limit, rate, maxOffered, total, sess,
               hpc, cpc, log, issued, stopRet, armed, hist, itvars, setvars, tm>>

\* the slave at place i of itertools.cycle(pairs)
PairAt(i) == (i % NumConns) + 1

\* line 62: the pair is skipped when l.count_calls() > l.max_limit
Eligible(l, c) == ~(l.cnt[c] > l.max_limit[c])

\* lines 60-64: the place of the next pair the limiter yields, from place i on
\* (used when some pair is eligible; else the loop of line 60 never yields)
RECURSIVE NextPlace(_, _)
NextPlace(l, i) == IF Eligible(l, PairAt(i)) THEN i ELSE NextPlace(l, i + 1)

\* the pairs n draws of the limiter yield, the first from place i on
RECURSIVE Draw(_, _, _)
Draw(l, i, n) ==
  IF n = 0 THEN <<>>
  ELSE <<PairAt(NextPlace(l, i))>> \o Draw(l, NextPlace(l, i) + 1, n - 1)

\* the place of the cycle after n draws
RECURSIVE PlaceAfter(_, _, _)
PlaceAfter(l, i, n) ==
  IF n = 0 THEN i ELSE PlaceAfter(l, NextPlace(l, i) + 1, n - 1)

\* lines 404-413: a burst with num > 0 comes to the for statement
L_Burst(num) ==
  /\ lm.pc = "idle" /\ lm.reqs < MaxReqs
  /\ lm' = [lm EXCEPT !.pc = "zip", !.num = num]
  /\ UNCHANGED unlimited

\* line 413: zip(range(num), self.iterslaves) builds its list of pairs before
\* the loop body runs: num pairs are drawn from the limiter, which goes on
\* from where the last burst left it. While no pair is eligible the loop of
\* line 60 goes round without a yield and the worker stays here.
L_Zip ==
  /\ lm.pc = "zip"
  /\ \E c \in Conns : Eligible(lm, c)
  /\ lm' = [lm EXCEPT !.pc = "loop",
                      !.drawn = Draw(lm, lm.idx, lm.num),
                      !.idx = PlaceAfter(lm, lm.idx, lm.num) % NumConns]
  /\ UNCHANGED unlimited

\* lines 414-417: the loop ends early (state no longer ORIGINATING, or the
\* limit reached), or has no pair left
L_Break ==
  /\ lm.pc = "loop"
  /\ lm' = [lm EXCEPT !.pc = "idle", !.drawn = <<>>]
  /\ UNCHANGED unlimited

\* lines 420-423: slave.client.originate(...) for the next pair of the list
L_Originate ==
  /\ lm.pc = "loop" /\ lm.drawn # <<>> /\ lm.reqs < MaxReqs
  /\ lm' = [lm EXCEPT !.drawn = Tail(lm.drawn),
                      !.jobs[Head(lm.drawn)] = @ + 1,
                      !.reqs = @ + 1]
  /\ UNCHANGED unlimited

\* the slave creates the session of a request; its listener counts the call
L_Create(c) ==
  /\ lm.pc # "off" /\ lm.jobs[c] > 0
  /\ lm' = [lm EXCEPT !.jobs[c] = @ - 1, !.cnt[c] = @ + 1]
  /\ UNCHANGED unlimited

\* a call of the slave ends
L_Hangup(c) ==
  /\ lm.pc # "off" /\ lm.cnt[c] > 0
  /\ lm' = [lm EXCEPT !.cnt[c] = @ - 1]
  /\ UNCHANGED unlimited

NextLim ==
  \/ \E num \in 1..MaxDrawn : L_Burst(num)
  \/ L_Zip
  \/ L_Break
  \/ L_Originate
  \/ \E c \in Conns : L_Create(c) \/ L_Hangup(c)

\* a pool whose listeners have any ceilings, no call up, the limiter new
InitLim ==
  /\ Setup(FALSE) /\ limit = 1 /\ rate = 1 /\ maxOffered = 1
  /\ weights = <<>> /\ counts = <<>> /\ order = <<>>
  /\ gen = "new" /\ scan = <<>> /\ pos = 0 /\ pend = NoId /\ cyc = <<>>
  /\ cp = <<>> /\ wr = "idle" /\ edits = 0 /\ began = 0
  /\ duration = NoVal /\ ibp = NoVal /\ autoDur = TRUE /\ hooks = {}
  /\ hkRate = NoVal /\ hkLimit = NoVal /\ hkDur = NoVal /\ lastSet = "none"
  /\ hup = NoHup /\ tm = NoTm
  /\ \E ml \in [Conns -> 0..MaxCeiling] :
       lm = [pc |-> "idle", idx |-> 0, num |-> 0, drawn |-> <<>>,
             cnt |-> [c \in Conns |-> 0], jobs |-> [c \in Conns |-> 0],
             max_limit |-> ml, reqs |-> 0]

SpecLim == InitLim /\ [][NextLim]_vars

\* the worker runs, and the slaves create the sessions asked of them; a call
\* that is up ends when its two ends have it end, which no thread of the
\* engine brings about (duration 0, or the call's `noautohangup`)
FairLim ==
  /\ WF_vars(L_Zip \/ L_Break \/ L_Originate)
  /\ \A c \in Conns : WF_vars(L_Create(c))

SpecLimFair == InitLim /\ [][NextLim]_vars /\ FairLim

(* ============================== claims ================================= *)

\* C1 -- Admission ceiling: the requests a burst has issued never exceed
\* max(0, limit - active count read at the start of the burst) nor rate.
AdmissionCeiling ==
  \A t \in Threads :
    /\ wloc[t].originated <= Max(0, limit - wloc[t].act0)
    /\ wloc[t].originated <= rate

\* a burst that began with a session already active has used up its ceiling
AdmissionCeilingWitness ==
  \E t \in Threads :
    /\ wpc[t] = "b_state"
    /\ wloc[t].act0 > 0
    /\ wloc[t].originated > 0
    /\ wloc[t].originated = Max(0, limit - wloc[t].act0)

\* C2 -- Concurrency ceiling: the number of simultaneously active sessions
\* never exceeds limit.
ConcurrencyCeiling == count_calls <= limit

\* C3 -- Quota termination: the step that completes the max_offered-th
\* session-created notification leaves the state STOPPED.
QuotaTermination ==
  [][(Handled' = maxOffered /\ Handled # maxOffered) => state' = STOPPED]_vars

\* C4 -- Lifetime cap: in a run started once no more than max_offered
\* requests are issued and the originated total never exceeds max_offered.
LifetimeCap == issued <= maxOffered /\ total <= maxOffered

\* C5 -- Stop takes effect: once stop() has returned and start() is not
\* called again, the state is STOPPED.
StopTakesEffect == stopRet => state = STOPPED

\* C6 -- Idempotent transition guard: a step emits the observation old->new
\* exactly when it changes the state from old to new; stop() ends in STOPPED
\* and with the state already STOPPED it changes nothing and emits nothing.
TransitionGuard ==
  [][ /\ state' # state => log' = <<state, state'>>
      /\ state' = state => log' = NoLog
      /\ Stop => state' = STOPPED
      /\ Stop /\ state = STOPPED => UNCHANGED <<state, wvars, evars, issued>>
    ]_vars

\* stop() has moved the state from ORIGINATING to STOPPED and logged it: the
\* last step logged the change, and it was neither the quota, the end of
\* the last session, a failed burst, hupall() nor shutdown()
TransitionGuardWitness ==
  /\ log = <<ORIGINATING, STOPPED>>
  /\ cpc = "idle" /\ ~exitFlag
  /\ origCmd /\ apps /\ ~iterDone
  /\ total < maxOffered /\ count_calls > 0

\* C7 -- Start re-arms the loop: after start() on an engine with an
\* originate command that was not shut down, a burst runs in the
\* ORIGINATING state unless something stops the run first.
StartReArms == armed ~> ~armed

\* C8 -- Single worker: at most one worker thread is alive, at most one
\* burst is executing and at most one burst is pending in the scheduler.
SingleWorker ==
  /\ Cardinality({t \in Threads : Alive(wpc[t])}) <= 1
  /\ Cardinality({t \in Threads : InBurst(wpc[t])}) <= 1
  /\ queue <= 1

\* start() was called while the worker is alive with a burst pending
SingleWorkerWitness ==
  /\ cpc = "start_clear"
  /\ queue = 1
  /\ \E t \in Threads : wpc[t] = "inner"

\* C9 -- Shutdown is final: once shutdown() has returned the state is never
\* ORIGINATING.
ShutdownFinal == ShutRet => state # ORIGINATING

\* C10 -- Shutdown terminates the worker: after shutdown() has returned the
\* worker thread eventually ends.
ShutdownTerminates == ShutRet ~> (\A t \in Threads : ~Alive(wpc[t]))

\* C11 -- hupall ordering: while hupall() stands between its state change
\* and its hangup request (also when shutdown() runs it), so at the moment
\* the request is sent and hupall() returns, the state is STOPPED.
HupallOrdering == cpc \in {"hup_send", "sd_hup"} => state = STOPPED

\* C12 -- Fail-safe on burst error: the step in which an iteration of the
\* burst loop raises leaves the state STOPPED and the worker alive in the
\* outer loop (out of the task loop, on its way to _start.wait()), issues
\* no request and ends no session.
BurstFailSafe ==
  [][\A t \in Threads :
       (wpc[t] = "b_orig" /\ wpc'[t] \notin {"b_orig", "b_state"})
         => /\ state' = STOPPED
            /\ wpc'[t] = "outer"
            /\ issued' = issued
            /\ sess' = sess
    ]_vars

\* a burst has just failed in the ORIGINATING state, with apps loaded and
\* sessions active: the worker is in the outer loop and the change is logged
BurstFailSafeWitness ==
  /\ \E t \in Threads : wpc[t] = "outer"
  /\ log = <<ORIGINATING, STOPPED>>
  /\ apps /\ ~iterDone
  /\ count_calls > 0

\* C13 -- Configuration error on start: start() does not return normally
\* when no originate command is configured (the ConfigurationError reaches
\* its caller); a start() that returns had an originate command.
ConfigErrorSurfaced == [][StartClear => origCmd]_vars

\* C14 -- No behaviours loaded: while the weight map is empty the state is
\* never ORIGINATING and no burst is executing.
NoBurstWithoutApps ==
  ~apps => (state # ORIGINATING /\ \A t \in Threads : ~InBurst(wpc[t]))

\* C15 -- Weighted fairness: with the weights held constant, the items
\* yielded between two refills of the countdown hold every id exactly
\* weight-many times (so sum(weights) items, and never more than its weight
\* of an id on the way); with weights {A:3, B:1} the cycle is not A A A B.
WeightsA3B1 == [k \in Ids |-> IF k = "A" THEN 3 ELSE 1]

WeightedFairness ==
  [][ /\ \A k \in DOMAIN weights : Occurrences(cyc', k) <= weights[k]
      /\ (cyc # <<>> /\ cyc' = <<>>) =>
           /\ \A k \in DOMAIN weights : Occurrences(cyc, k) = weights[k]
           /\ \A i \in DOMAIN cyc : cyc[i] \in DOMAIN weights
           /\ weights = WeightsA3B1 => cyc # <<"A", "A", "A", "B">>
    ]_vars

\* a full cycle of {A:3, B:1} has just ended: the countdown was refilled
\* on resuming the generator after the last item of the cycle
WeightedFairnessWitness ==
  /\ weights = WeightsA3B1
  /\ gen = "scan" /\ pos >= 2
  /\ cyc = <<>> /\ counts = weights

AutoDurationLaw ==
  (autoDur /\ lastSet \in {"rate", "limit"})
    => RatEq(duration, Ratio(limit + duration_offset * rate, rate))

CounterExact ==
  total = Handled + Cardinality({c \in Conns : hpc[c] = Chk})

\* C21 -- Stop condition: handling a background-job-completed or a
\* session-ended notification leaves the state STOPPED when the pool then
\* counts no job and no session, whatever the state was, and leaves the
\* state as it was otherwise.
StopCondition ==
  [][\A c \in Conns :
       (H_Bj(c) \/ H_Hangup(c)) =>
         state' = IF CountJobs(sess') = 0 /\ CountSessions(sess') = 0
                    THEN STOPPED ELSE state
    ]_vars

\* the hangup of the last session has stopped a run that was ORIGINATING
\* (the quota stop leaves a session behind, a failed burst leaves the worker
\* at the outer loop)
StopConditionWitness ==
  /\ log = <<ORIGINATING, STOPPED>>
  /\ CountJobs(sess) = 0 /\ CountSessions(sess) = 0
  /\ issued > 0
  /\ \A t \in Threads : wpc[t] # "outer"

\* C22 -- Auto-hangup scheduling: handling a background-job-completed
\* notification schedules a hangup of its session exactly when the session
\* has not set noautohangup and the duration is positive, and then at
\* duration minus the time elapsed since the session's creation; with a
\* duration of 0 no hangup is scheduled.
AutoHangupScheduling ==
  [][\A na \in BOOLEAN, el \in ElapsedChoices :
       HandleBj(na, el) =>
         /\ hup'.at # NoVal <=> (~na /\ duration.n * duration.d > 0)
         /\ hup'.at # NoVal =>
              hup'.at.n * duration.d = (duration.n - el * duration.d) * hup'.at.d
         /\ RatEq(duration, Ratio(0, 1)) => hup'.at = NoVal
    ]_vars

\* a hangup was scheduled under an auto duration that is no whole number,
\* for a session already up for a while
AutoHangupSchedulingWitness ==
  /\ hup.seen /\ ~hup.noauto /\ hup.elapsed > 0
  /\ duration.d > 1 /\ duration.n % duration.d # 0
  /\ RatEq(hup.at, HangupDelay(duration, hup.elapsed))

\* C23 -- Absolute-time re-arming: in a run that stays ORIGINATING and whose
\* bursts each take less than a period, two consecutive burst invocations
\* start exactly one period apart.
PeriodApart == tm.gap # None => tm.gap = period

\* C24 -- Hard rate ceiling: whatever rate and limit are set, the number of
\* originate requests one burst issues (`num`, line 404, for any count of
\* active calls) does not exceed max_rate.
HardRateCeiling ==
  \A active \in 0..MaxLimit : Max(BurstNum(limit, active, rate), 0) <= max_rate

\* C25 -- Back-pressure: a burst that finds min(limit - active, rate) <= 0
\* issues no request and returns at once with the state still ORIGINATING;
\* the burst that follows it starts one period after it started.
BackPressure ==
  (tm.pc = "burst" /\ tm.gap # None /\ tm.took = 0) => tm.gap = period

\* C26 -- No backward transitions: the state is always INITIAL, ORIGINATING
\* or STOPPED, never returns to INITIAL once it has left it, and a step from
\* STOPPED to ORIGINATING happens only after a start() called since the
\* engine was stopped.
NoBackwardTransition ==
  [][ /\ state' \in {INITIAL, ORIGINATING, STOPPED}
      /\ state # INITIAL => state' # INITIAL
      /\ (state = STOPPED /\ state' = ORIGINATING) => armed
    ]_vars

\* C27 -- Countdown invariant: whenever no weight assignment is under way,
\* the countdown of every id is at most its weight and the countdown map
\* has the keys of the weight map, for any interleaving of the consumer's
\* steps with weight assignments.
CountdownInvariant ==
  wr = "idle" =>
    /\ DOMAIN counts = DOMAIN weights
    /\ \A k \in DOMAIN counts : counts[k] <= Get(weights, k)

\* C28 -- Live weight edits: after a weight was assigned, a cycle that a
\* refill began once the assignment was over, and during which no weight is
\* assigned, emits every id exactly its new weight-many times (an id the
\* assignment added included, none for an id set to 0); the iteration in
\* progress is not restarted.
LiveWeightEdits ==
  [][(gen = "store" /\ gen' = "scan" /\ edits > 0 /\ began = edits)
       => \A k \in DOMAIN weights : Occurrences(cyc, k) = weights[k]
    ]_vars

\* C29 -- Empty weight map: a request for the next id made while the weight
\* map is empty goes straight to the end of the generator (the StopIteration
\* of line 91 reaches the caller of next()): it does not loop and no id is
\* handed out while the map is empty.
EmptyWeightMap ==
  [][ /\ (DOMAIN weights = {} /\ DOMAIN weights' = {} /\ gen' # gen)
           => \/ gen = "new" /\ gen' = "head"
              \/ gen = "head" /\ gen' = "done"
      /\ DOMAIN weights' = {}
           => gen' \in {"new", "head", "done"} /\ pend' = NoId /\ cyc' = <<>>
    ]_vars

\* the request made of an iterator without weights has failed
EmptyWeightMapWitness ==
  DOMAIN weights = {} /\ gen = "done" /\ pend = NoId /\ edits = 0

\* C30 -- Connection admission filter: no originate request of a burst is
\* issued against a slave whose listener counts more calls than its
\* max_limit at the time the request is issued.
AdmissionFilter ==
  [][\A c \in Conns :
       (lm.pc = "loop" /\ lm'.jobs[c] > lm.jobs[c]) => lm.cnt[c] <= lm.max_limit[c]
    ]_vars

\* C31 -- Frame of stop(): a call of stop() changes nothing but the run state:
\* it leaves the caller at no hangup request (the sessions and jobs of the
\* pool are as before), and total originated, rate, limit, duration,
\* max_offered, the weight map and the worker thread are unchanged.
StopFrame ==
  [][Stop =>
       /\ cpc' = "idle" /\ sess' = sess
       /\ total' = total /\ rate' = rate /\ limit' = limit
       /\ duration' = duration /\ maxOffered' = maxOffered
       /\ weights' = weights /\ counts' = counts
       /\ thread' = thread /\ wpc' = wpc
       /\ startFlag' = startFlag /\ exitFlag' = exitFlag
    ]_vars

\* stop() has taken a running engine with sessions up to STOPPED; the
\* sessions are still there and the worker is alive
StopFrameWitness ==
  /\ stopRet /\ state = STOPPED /\ log = <<ORIGINATING, STOPPED>>
  /\ cpc = "idle" /\ CountSessions(sess) > 0
  /\ \E t \in Threads : Alive(wpc[t])

\* C32 -- Burst termination: a burst that has come to its loop over the
\* slaves returns to the worker loop, whatever the call counts of the
\* connections are (also when every connection is above its max_limit).
BurstTerminates == (lm.pc = "zip") ~> (lm.pc = "idle")

\* C33 -- Recovery after an empty weight map: when a run has failed because
\* no app was loaded at next(iterappids), an app has been loaded since and
\* start() wakes the waiting worker again, an originate request is issued.
RecoveryAfterEmpty ==
  (/\ iterDone /\ apps /\ origCmd /\ ~exitFlag
   /\ cpc = "start_set" /\ thread # 0 /\ wpc[thread] = "blocked")
    ~> (issued > 0)

\* C34 -- Iterator productivity: while the weight map is not empty, a
\* request for the next id that is under way returns an id: the generator
\* does not go on scanning for ever without a yield.
IteratorProductive ==
  (gen \in {"head", "scan", "store"} /\ DOMAIN weights # {}) ~> (gen = "yield")

====
